---- MODULE Spec2Model ----
(***************************************************************************)
(* Service orchestration and inter-service messaging of motospect:         *)
(*   infrastructure/mqtt_service_bus.py  (MQTTServiceBus, call_service)    *)
(*   infrastructure/service_manager.py   (PortManager, ServiceRegistry,    *)
(*                                        ServiceManager, HealthChecker)   *)
(* Three specifications share the module: SpecBus (the bus and its         *)
(* callers), SpecPM (the port manager alone) and SpecSM (the service       *)
(* manager with its registry, port manager and child processes).           *)
(***************************************************************************)
EXTENDS Naturals, Sequences, FiniteSets, TLC

VARIABLES
    \* ---- MQTTServiceBus ----
    message_handlers,   \* handler key -> handler
    pending_requests,   \* message id -> the caller's threading.Event
    request_responses,  \* message id -> response payload
    executor,           \* ThreadPoolExecutor work queue
    broker,             \* messages published and not yet delivered to the bus
    calls,              \* the threads running call_service
    delivery,           \* the paho network thread running _on_message
    dups,               \* copies the broker has made so far
    sent,               \* history: every message published
    arrived,            \* history: every message handed to _on_message
    history,            \* history: callbacks registered, handlers invoked
    peer,               \* a second bus instance connected to the same broker
    \* ---- PortManager / ServiceRegistry / ServiceManager ----
    start_port,         \* PortManager.start_port
    end_port,           \* PortManager.end_port
    allocated_ports,    \* PortManager.allocated_ports
    occupied,           \* ports bound by processes the manager did not spawn
    services,           \* ServiceRegistry.services
    disk,               \* content of the registry file
    processes,          \* ServiceManager.processes (Popen handles)
    procs,              \* the child processes alive in the operating system
    mgr,                \* position of the manager's control thread
    lastCall,           \* the operation the control thread ran last
    result,             \* and what it returned
    nextPid             \* number of processes spawned so far

busVars == <<message_handlers, pending_requests, request_responses, executor,
             broker, calls, delivery, dups, sent, arrived, history, peer>>
smVars == <<start_port, end_port, allocated_ports, occupied, services, disk, processes, procs, mgr,
            lastCall, result, nextPid>>
vars == <<busVars, smVars>>

(***************************************************************************)
(* Bounds of the model.                                                    *)
(***************************************************************************)
MaxCalls == 2
MaxDups == 1
MaxEvents == 1
\* Length of the port range (9000 - 8000 in the source's defaults).
RangeLen == 2
\* Length of the port range of a port manager checked on its own.
PMRangeLen == 3
\* Processes the manager may spawn in one run.
MaxSpawns == 2
\* Health probes wait_for_health makes before its window has elapsed.
MaxPolls == 2

\* Python's None, one per type it stands in for.
None == "None"
NoTopic == <<>>
NoPayload == <<"None">>

(***************************************************************************)
(* MQTTServiceBus                                                          *)
(***************************************************************************)
REQUEST == "request"
RESPONSE == "response"
EVENT == "event"
HEALTH_CHECK == "health_check"

base_topic == "motospect"

ServiceMessage(id, type, svc, meth, pl, rtopic, cid) ==
    [message_id |-> id, message_type |-> type, service_name |-> svc,
     method |-> meth, payload |-> pl, response_topic |-> rtopic,
     correlation_id |-> cid]

\* str(uuid.uuid4()): no two draws are equal.  A draw is named after the
\* place that makes it: the call a request id is drawn for, or the delivery
\* (request id and copy) a response id is drawn for.
uuid4(site) == "id-" \o site
CallSite(c) == "call" \o ToString(c)
ReplySite(request_id, copy) == request_id \o "-reply" \o ToString(copy)

\* Inputs of the callers and of the services.
BusServices == {"vin"}
Methods == {"decode", "nope"}
Unserializable == <<"object">>
\* Each caller has a payload of its own, or passes an object json cannot encode.
PayloadsOf(c) == {<<"p" \o ToString(c)>>, Unserializable}

\* The methods services register handlers for.
Registrable == {"decode"}

HandlerKey(svc, meth) == svc \o "." \o meth

\* What a handler (the service's code) does with a call: it returns a value
\* json.dumps can encode, returns an object json.dumps cannot encode, or
\* raises.
HandlerOutcomes == {"returns", "returns_object", "raises"}

\* handler(message.payload): <<TRUE, result>> when the handler returns,
\* <<FALSE, str(e)>> when it raises.
RunHandler(h, pl, how) ==
    IF how = "raises" THEN <<FALSE, h \o " failed">>
    ELSE IF how = "returns_object" THEN <<TRUE, Unserializable>>
    ELSE <<TRUE, <<"result of " \o h>> \o pl>>

\* str(e) of the TypeError json.dumps raises in _send_message, line 221.
DumpsError == "Object of type object is not JSON serializable"

ErrorPayload(text) == <<"error", text>>

\* json.dumps(payload) raises TypeError on an object it cannot encode.
Serializable(pl) == pl # Unserializable

\* _send_message: the message as published on topic, in the k copies the
\* broker queues for the bus.
Published(topic, msg, k) ==
    {[topic |-> topic, msg |-> msg, copy |-> n] : n \in 1..k}

\* The broker (external) queues one copy of a message for the bus, or one per
\* matching subscription: the bus subscribes to the wildcard topics (lines
\* 92-93) and again to services/<name>/+ (line 229) and to each response
\* topic (line 269).
Copies == IF dups < MaxDups THEN {1, 2} ELSE {1}

\* _on_message: the route taken for a topic.
Route(topic_parts) ==
    LET has(w) == \E i \in 1..Len(topic_parts) : topic_parts[i] = w
    IN  IF has("services") THEN "services"
        ELSE IF has("responses") THEN "responses"
        ELSE IF has("events") THEN "events"
        ELSE IF has("health") THEN "health"
        ELSE "none"

IdleCall == [pc |-> "idle", message_id |-> None, service_name |-> None,
             method |-> None, payload |-> NoPayload, event |-> FALSE,
             response |-> NoPayload,
             outcome |-> [kind |-> "none", value |-> NoPayload]]

CallIds == 1..MaxCalls

\* No second bus is connected.
NoPeer == [connected |-> FALSE, message_handlers |-> <<>>, inbox |-> {}]

\* The broker hands what is published on topic to the second bus too, when
\* one is connected: every bus subscribes to services/+/+ (lines 62, 92-93).
PeerReceives(pr, topic, msg) ==
    IF pr.connected /\ Route(topic) = "services"
    THEN [pr EXCEPT !.inbox = @ \cup {[topic |-> topic, msg |-> msg]}]
    ELSE pr

InitBus ==
    /\ message_handlers = <<>>
    /\ pending_requests = <<>>
    /\ request_responses = <<>>
    /\ executor = <<>>
    /\ broker = {}
    /\ calls = [c \in CallIds |-> IdleCall]
    /\ delivery = [pc |-> "idle"]
    /\ dups = 0
    /\ sent = {}
    /\ arrived = {}
    /\ history = {}
    /\ peer = NoPeer

\* d without key k.
Without(d, k) == [x \in DOMAIN d \ {k} |-> d[x]]
\* d with key k set to v.
With(d, k, v) == [x \in DOMAIN d \cup {k} |-> IF x = k THEN v ELSE d[x]]

RequestTopic(svc, meth) == <<base_topic, "services", svc, meth>>
ResponseTopic(id) == <<base_topic, "responses", id>>

\* register_handler(service_name, method, handler)
register_handler(svc, meth) ==
    /\ message_handlers' =
           With(message_handlers, HandlerKey(svc, meth), meth)
    /\ UNCHANGED <<pending_requests, request_responses, executor, broker,
                   calls, delivery, dups, sent, arrived>>
    /\ UNCHANGED history
    /\ UNCHANGED peer
    /\ UNCHANGED smVars

(* call_service, lines 261-269: draw the message id, create the Event and  *)
(* store it in pending_requests, subscribe to the response topic.          *)
CallStart(c, svc, meth, pl) ==
    /\ calls[c].pc = "idle"
    /\ LET id == uuid4(CallSite(c))
       IN  /\ pending_requests' = With(pending_requests, id, c)
           /\ calls' = [calls EXCEPT ![c] =
                  [@ EXCEPT !.pc = "registered", !.message_id = id,
                            !.service_name = svc, !.method = meth,
                            !.payload = pl]]
    /\ UNCHANGED <<message_handlers, request_responses, executor, broker,
                   delivery, dups, sent, arrived>>
    /\ UNCHANGED history
    /\ UNCHANGED peer
    /\ UNCHANGED smVars

(* call_service, lines 272-282: build the REQUEST and publish it.  When    *)
(* json.dumps raises, the exception leaves call_service at once.           *)
CallSend(c) ==
    /\ calls[c].pc = "registered"
    /\ LET me == calls[c]
           request_message ==
               ServiceMessage(me.message_id, REQUEST, me.service_name,
                              me.method, me.payload,
                              ResponseTopic(me.message_id), None)
       IN  IF Serializable(me.payload)
           THEN /\ \E k \in Copies :
                       /\ broker' = broker \cup
                              Published(RequestTopic(me.service_name,
                                                     me.method),
                                        request_message, k)
                       /\ dups' = dups + (k - 1)
                /\ sent' = sent \cup {request_message}
                /\ peer' = PeerReceives(peer,
                                        RequestTopic(me.service_name,
                                                     me.method),
                                        request_message)
                /\ calls' = [calls EXCEPT ![c].pc = "waiting"]
           ELSE /\ calls' = [calls EXCEPT ![c].pc = "done",
                                 ![c].outcome = [kind |-> "raised",
                                     value |-> ErrorPayload("TypeError")]]
                /\ UNCHANGED <<broker, sent, dups, peer>>
    /\ UNCHANGED <<message_handlers, pending_requests, request_responses,
                   executor, delivery, arrived>>
    /\ UNCHANGED history
    /\ UNCHANGED smVars

\* line 285: response_event.wait(timeout) returns True, the Event is set.
WaitSignalled(c) ==
    /\ calls[c].pc = "waiting"
    /\ calls[c].event
    /\ calls' = [calls EXCEPT ![c].pc = "woke"]
    /\ UNCHANGED <<message_handlers, pending_requests, request_responses,
                   executor, broker, delivery, dups, sent, arrived>>
    /\ UNCHANGED history
    /\ UNCHANGED peer
    /\ UNCHANGED smVars

\* line 285: the window elapses with the Event not set, wait returns False.
WaitTimeout(c) ==
    /\ calls[c].pc = "waiting"
    /\ ~calls[c].event
    /\ calls' = [calls EXCEPT ![c].pc = "timedout"]
    /\ UNCHANGED <<message_handlers, pending_requests, request_responses,
                   executor, broker, delivery, dups, sent, arrived>>
    /\ UNCHANGED history
    /\ UNCHANGED peer
    /\ UNCHANGED smVars

\* line 286: response = self.request_responses.get(message_id)
ReadResponse(c) ==
    /\ calls[c].pc = "woke"
    /\ calls' = [calls EXCEPT ![c].pc = "read",
                     ![c].response =
                         IF calls[c].message_id \in DOMAIN request_responses
                         THEN request_responses[calls[c].message_id]
                         ELSE NoPayload]
    /\ UNCHANGED <<message_handlers, pending_requests, request_responses,
                   executor, broker, delivery, dups, sent, arrived>>
    /\ UNCHANGED history
    /\ UNCHANGED peer
    /\ UNCHANGED smVars

\* line 288: del self.pending_requests[message_id]
DelPending(c) ==
    /\ calls[c].pc = "read"
    /\ IF calls[c].message_id \in DOMAIN pending_requests
       THEN /\ pending_requests' =
                   Without(pending_requests, calls[c].message_id)
            /\ calls' = [calls EXCEPT ![c].pc = "unregistered"]
       ELSE /\ calls' = [calls EXCEPT ![c].pc = "done",
                             ![c].outcome = [kind |-> "raised",
                                 value |-> ErrorPayload("KeyError")]]
            /\ UNCHANGED pending_requests
    /\ UNCHANGED <<message_handlers, request_responses, executor, broker,
                   delivery, dups, sent, arrived>>
    /\ UNCHANGED history
    /\ UNCHANGED peer
    /\ UNCHANGED smVars

\* lines 289-293: drop the response slot, unsubscribe, return response.
ReturnResponse(c) ==
    /\ calls[c].pc = "unregistered"
    /\ request_responses' = Without(request_responses, calls[c].message_id)
    /\ calls' = [calls EXCEPT ![c].pc = "done",
                     ![c].outcome = [kind |-> "return",
                                     value |-> calls[c].response]]
    /\ UNCHANGED <<message_handlers, pending_requests, executor, broker,
                   delivery, dups, sent, arrived>>
    /\ UNCHANGED history
    /\ UNCHANGED peer
    /\ UNCHANGED smVars

\* A timeout path that raises without removing the pending entry.
TimeoutCleanup_NoCleanup(c) ==
    /\ calls[c].pc = "timedout"
    /\ calls' = [calls EXCEPT ![c].pc = "done",
                     ![c].outcome = [kind |-> "timeout", value |-> NoPayload]]
    /\ UNCHANGED <<message_handlers, pending_requests, request_responses,
                   executor, broker, delivery, dups, sent, arrived>>
    /\ UNCHANGED history
    /\ UNCHANGED peer
    /\ UNCHANGED smVars

\* lines 295-298: cleanup on timeout, raise TimeoutError.
TimeoutCleanup(c) ==
    /\ calls[c].pc = "timedout"
    /\ IF calls[c].message_id \in DOMAIN pending_requests
       THEN /\ pending_requests' =
                   Without(pending_requests, calls[c].message_id)
            /\ calls' = [calls EXCEPT ![c].pc = "done",
                             ![c].outcome = [kind |-> "timeout",
                                             value |-> NoPayload]]
       ELSE /\ calls' = [calls EXCEPT ![c].pc = "done",
                             ![c].outcome = [kind |-> "raised",
                                 value |-> ErrorPayload("KeyError")]]
            /\ UNCHANGED pending_requests
    /\ UNCHANGED <<message_handlers, request_responses, executor, broker,
                   delivery, dups, sent, arrived>>
    /\ UNCHANGED history
    /\ UNCHANGED peer
    /\ UNCHANGED smVars

(***************************************************************************)
(* The paho network thread: one message at a time through _on_message.     *)
(***************************************************************************)

\* A bus that only logs a request nobody handles.
MissingHandlerReply_LogOnly(msg, id) == {}

\* _handle_service_request, lines 143-152: the reply to a request nobody
\* handles; none when the request names no response topic.
MissingHandlerReply(msg, id) ==
    IF msg.response_topic # NoTopic
    THEN {ServiceMessage(id, RESPONSE, "service_bus", "error",
              ErrorPayload("No handler for "
                  \o HandlerKey(msg.service_name, msg.method)),
              NoTopic, msg.message_id)}
    ELSE {}

\* _on_message routing to _handle_service_request, lines 133-152.
DeliverRequest(item) ==
    /\ delivery.pc = "idle"
    /\ item \in broker
    /\ Route(item.topic) = "services"
    /\ arrived' = arrived \cup {item.msg}
    /\ LET msg == item.msg
           handler_key == HandlerKey(msg.service_name, msg.method)
           reply == MissingHandlerReply(msg,
                        uuid4(ReplySite(msg.message_id, item.copy)))
       IN  IF handler_key \in DOMAIN message_handlers
           THEN /\ executor' = Append(executor,
                       [handler_key |-> handler_key, message |-> msg,
                        copy |-> item.copy])
                /\ broker' = broker \ {item}
                /\ UNCHANGED <<sent, dups>>
           ELSE /\ \E k \in Copies :
                       /\ broker' = (broker \ {item}) \cup
                              UNION {Published(msg.response_topic, r, k) :
                                     r \in reply}
                       /\ dups' = dups + (k - 1)
                /\ sent' = sent \cup reply
                /\ UNCHANGED executor
    /\ UNCHANGED <<message_handlers, pending_requests, request_responses,
                   calls, delivery>>
    /\ UNCHANGED history
    /\ UNCHANGED peer
    /\ UNCHANGED smVars

\* A _handle_response that takes every response for awaited.
IsPending_Always(cid) == TRUE

\* _handle_response, line 189: message.correlation_id in pending_requests
IsPending(cid) == cid \in DOMAIN pending_requests

\* _handle_response, line 189: if message.correlation_id in pending_requests
RespCheck(item) ==
    /\ delivery.pc = "idle"
    /\ item \in broker
    /\ Route(item.topic) = "responses"
    /\ broker' = broker \ {item}
    /\ arrived' = arrived \cup {item.msg}
    /\ delivery' = IF IsPending(item.msg.correlation_id)
                   THEN [pc |-> "store", message |-> item.msg]
                   ELSE [pc |-> "idle"]
    /\ UNCHANGED <<message_handlers, pending_requests, request_responses,
                   executor, calls, dups, sent>>
    /\ UNCHANGED history
    /\ UNCHANGED peer
    /\ UNCHANGED smVars

\* A bus that files the payload under the response's own message id.
ResponseSlot_OwnId(msg) == msg.message_id

\* The slot _handle_response writes, line 190.
ResponseSlot(msg) == msg.correlation_id

\* line 190: self.request_responses[message.correlation_id] = message.payload
RespStore ==
    /\ delivery.pc = "store"
    /\ request_responses' = With(request_responses,
                                 ResponseSlot(delivery.message),
                                 delivery.message.payload)
    /\ delivery' = [delivery EXCEPT !.pc = "set"]
    /\ UNCHANGED <<message_handlers, pending_requests, executor, broker,
                   calls, dups, sent, arrived>>
    /\ UNCHANGED history
    /\ UNCHANGED peer
    /\ UNCHANGED smVars

\* line 191: self.pending_requests[message.correlation_id].set(); the
\* KeyError of a missing entry is caught in _on_message, lines 130-131.
RespSet ==
    /\ delivery.pc = "set"
    /\ LET cid == delivery.message.correlation_id
       IN  calls' = IF cid \in DOMAIN pending_requests
                    THEN [calls EXCEPT ![pending_requests[cid]].event = TRUE]
                    ELSE calls
    /\ delivery' = [pc |-> "idle"]
    /\ UNCHANGED <<message_handlers, pending_requests, request_responses,
                   executor, broker, dups, sent, arrived>>
    /\ UNCHANGED history
    /\ UNCHANGED peer
    /\ UNCHANGED smVars

\* An _execute_handler that only logs what goes wrong.
HandlerReply_LogOnly(handler, msg, id, how) ==
    LET r == RunHandler(handler, msg.payload, how)
    IN  IF r[1] /\ Serializable(r[2]) /\ msg.response_topic # NoTopic
        THEN {ServiceMessage(id, RESPONSE, msg.service_name, msg.method,
                             r[2], NoTopic, msg.message_id)}
        ELSE {}

\* _execute_handler, lines 154-185: the response a worker publishes. The
\* try block covers the handler and _send_message, so a result json.dumps
\* cannot encode ends in the except branch like a raising handler.
HandlerReply(handler, msg, id, how) ==
    LET r == RunHandler(handler, msg.payload, how)
        e == IF r[1] THEN DumpsError ELSE r[2]
    IN  IF msg.response_topic = NoTopic THEN {}
        ELSE IF r[1] /\ Serializable(r[2])
        THEN {ServiceMessage(id, RESPONSE, msg.service_name, msg.method,
                             r[2], NoTopic, msg.message_id)}
        ELSE {ServiceMessage(id, RESPONSE, msg.service_name, "error",
                             ErrorPayload(e), NoTopic, msg.message_id)}

\* q without its i-th element.
RemoveAt(q, i) ==
    [j \in 1..(Len(q) - 1) |-> IF j < i THEN q[j] ELSE q[j + 1]]

\* A pool that loses its queued tasks when a handler raises.
PoolAfter_DiesOnRaise(pool, i, how) ==
    IF how = "raises" THEN <<>> ELSE RemoveAt(pool, i)

\* The work queue once task i has run: _execute_handler catches what the
\* handler raises (line 172), so the pool goes on with the other tasks.
PoolAfter(pool, i, how) == RemoveAt(pool, i)

Invoked(handler, msg, copy) ==
    [kind |-> "invoked", handler |-> handler, message_id |-> msg.message_id,
     copy |-> copy]
Registered(key, handler) ==
    [kind |-> "registered", key |-> key, handler |-> handler]

\* A worker of the pool takes a queued task and runs _execute_handler.
ExecuteHandler(i, how) ==
    /\ i \in 1..Len(executor)
    /\ LET task == executor[i]
           reply == HandlerReply(message_handlers[task.handler_key],
                                 task.message,
                                 uuid4(ReplySite(task.message.message_id,
                                                 task.copy)), how)
       IN  /\ executor' = PoolAfter(executor, i, how)
           /\ \E k \in Copies :
                  /\ broker' = broker \cup
                         UNION {Published(task.message.response_topic, r, k) :
                                r \in reply}
                  /\ dups' = dups + (k - 1)
           /\ sent' = sent \cup reply
           /\ history' = history \cup
                  {Invoked(message_handlers[task.handler_key], task.message,
                           task.copy)}
    /\ UNCHANGED <<message_handlers, pending_requests, request_responses,
                   calls, delivery, arrived>>
    /\ UNCHANGED peer
    /\ UNCHANGED smVars

(***************************************************************************)
(* Events                                                                  *)
(***************************************************************************)
EventNames == {"vin_decoded"}
EventCallbacks == {"cb1", "cb2"}
EventPayloads == {<<"e">>}

EventKey(svc, event_name) == "event." \o svc \o "." \o event_name
EventTopic(svc, event_name) == <<base_topic, "events", svc, event_name>>

\* register_event_handler(service_name, event_name, handler)
register_event_handler(svc, event_name, handler) ==
    /\ message_handlers' =
           With(message_handlers, EventKey(svc, event_name), handler)
    /\ history' = history \cup {Registered(EventKey(svc, event_name), handler)}
    /\ UNCHANGED <<pending_requests, request_responses, executor, broker,
                   calls, delivery, dups, sent, arrived>>
    /\ UNCHANGED peer
    /\ UNCHANGED smVars

EventsPublished == {m \in sent : m.message_type = EVENT}

\* publish_event(service_name, event_name, payload)
publish_event(svc, event_name, pl) ==
    /\ Cardinality(EventsPublished) < MaxEvents
    /\ LET event_message ==
               ServiceMessage(uuid4("event"
                                    \o ToString(Cardinality(EventsPublished) + 1)),
                              EVENT, svc, event_name, pl, NoTopic, None)
       IN  /\ \E k \in Copies :
                  /\ broker' = broker \cup
                         Published(EventTopic(svc, event_name),
                                   event_message, k)
                  /\ dups' = dups + (k - 1)
           /\ sent' = sent \cup {event_message}
    /\ UNCHANGED <<message_handlers, pending_requests, request_responses,
                   executor, calls, delivery, arrived, history>>
    /\ UNCHANGED peer
    /\ UNCHANGED smVars

\* _on_message routing to _handle_event, lines 193-197.
DeliverEvent(item) ==
    /\ delivery.pc = "idle"
    /\ item \in broker
    /\ Route(item.topic) = "events"
    /\ broker' = broker \ {item}
    /\ arrived' = arrived \cup {item.msg}
    /\ LET event_key == EventKey(item.msg.service_name, item.msg.method)
       IN  executor' = IF event_key \in DOMAIN message_handlers
                       THEN Append(executor,
                                [handler_key |-> event_key,
                                 message |-> item.msg, copy |-> item.copy])
                       ELSE executor
    /\ UNCHANGED <<message_handlers, pending_requests, request_responses,
                   calls, delivery, dups, sent, history>>
    /\ UNCHANGED peer
    /\ UNCHANGED smVars

(***************************************************************************)
(* PortManager                                                             *)
(***************************************************************************)
Names == {"A", "B", "C"}

NoPort == 0
NoPid == 0

reserved_ports == {8030, 3030, 3040, 3050}

\* Ports some process listens on: the third parties' and those of the
\* children that have come up.
BoundPorts == occupied \cup {procs[pid].port : pid \in {q \in DOMAIN procs : procs[q].up}}

\* is_port_available: bind the port and release it.
is_port_available(port) == port \notin BoundPorts

Values(d) == {d[k] : k \in DOMAIN d}
\* A scan that runs down from the end of the range.
Min_Last(S) == CHOOSE m \in S : \A o \in S : m >= o

\* allocate_port, line 65: range(start_port, end_port) is ascending, so the
\* first port accepted is the smallest.
Min(S) == CHOOSE m \in S : \A o \in S : m <= o

\* allocate_port, lines 65-72, with the check of line 68 left out.
ScanCandidates_IgnoreTable(table) ==
    {port \in start_port..(end_port - 1) :
        port \notin reserved_ports /\ is_port_available(port)}

\* allocate_port, lines 65-72: the ports the scan can accept.
ScanCandidates(table) ==
    {port \in start_port..(end_port - 1) :
        /\ port \notin reserved_ports
        /\ port \notin Values(table)
        /\ is_port_available(port)}

\* allocate_port, lines 60-63, returning the recorded port unprobed.
CanReuse_Unprobed(table, service_name) == service_name \in DOMAIN table

\* allocate_port, lines 60-63: the recorded port is returned again.
CanReuse(table, service_name) ==
    /\ service_name \in DOMAIN table
    /\ is_port_available(table[service_name])

\* allocate_port: the port returned (NoPort when RuntimeError is raised),
\* the table afterwards and the ports whose bind probe succeeded.
AllocatePort(table, service_name) ==
    IF CanReuse(table, service_name)
    THEN [port |-> table[service_name], table |-> table]
    ELSE IF ScanCandidates(table) = {}
    THEN [port |-> NoPort, table |-> table]
    ELSE [port |-> Min(ScanCandidates(table)),
          table |-> With(table, service_name, Min(ScanCandidates(table)))]

\* A free_port that leaves the table as it is.
FreePort_Keep(table, service_name) == table

\* free_port
FreePort(table, service_name) ==
    IF service_name \in DOMAIN table THEN Without(table, service_name)
    ELSE table

NoCall == [op |-> "none", name |-> None, was |-> None, pid |-> NoPid,
           probe_ok |-> FALSE]
EnvStep == [NoCall EXCEPT !.op = "env"]

InitIdleSM ==
    /\ start_port = 8000
    /\ end_port = 8000 + RangeLen
    /\ allocated_ports = <<>>
    /\ occupied = {}
    /\ services = <<>>
    /\ disk = <<>>
    /\ processes = <<>>
    /\ procs = <<>>
    /\ mgr = [pc |-> "idle"]
    /\ lastCall = NoCall
    /\ result = [kind |-> "none"]
    /\ nextPid = 0

\* PortManager.allocate_port(service_name)
allocate_port(service_name) ==
    /\ mgr.pc = "idle"
    /\ LET r == AllocatePort(allocated_ports, service_name)
       IN  /\ allocated_ports' = r.table
           /\ result' = [kind |-> IF r.port = NoPort THEN "RuntimeError"
                                  ELSE "port",
                         value |-> r.port]
    /\ lastCall' = [NoCall EXCEPT !.op = "allocate", !.name = service_name]
    /\ UNCHANGED <<start_port, end_port, occupied, services, disk, processes,
                   procs, mgr, nextPid>>
    /\ UNCHANGED busVars

\* PortManager.free_port(service_name)
free_port(service_name) ==
    /\ mgr.pc = "idle"
    /\ allocated_ports' = FreePort(allocated_ports, service_name)
    /\ result' = [kind |-> "none"]
    /\ lastCall' = [NoCall EXCEPT !.op = "free", !.name = service_name]
    /\ UNCHANGED <<start_port, end_port, occupied, services, disk, processes,
                   procs, mgr, nextPid>>
    /\ UNCHANGED busVars

\* A process the manager did not spawn binds a port of the range, or
\* releases it.
ThirdParty(port) ==
    /\ port \in start_port..(end_port - 1)
    /\ port \notin BoundPorts \ occupied
    /\ occupied' = IF port \in occupied THEN occupied \ {port}
                   ELSE occupied \cup {port}
    /\ lastCall' = EnvStep
    /\ UNCHANGED <<start_port, end_port, allocated_ports, services, disk,
                   processes, procs, mgr, result, nextPid>>
    /\ UNCHANGED busVars

\* A port manager on its own, built with the default range start or with
\* one that puts a reserved port in the range.
InitPM ==
    /\ InitBus
    /\ start_port \in {8000, 8029}
    /\ end_port = start_port + PMRangeLen
    /\ allocated_ports = <<>>
    /\ occupied = {}
    /\ services = <<>>
    /\ disk = <<>>
    /\ processes = <<>>
    /\ procs = <<>>
    /\ mgr = [pc |-> "idle"]
    /\ lastCall = NoCall
    /\ result = [kind |-> "none"]
    /\ nextPid = 0

NextPM ==
    \/ \E n \in Names : allocate_port(n)
    \/ \E n \in Names : free_port(n)
    \/ \E port \in start_port..(end_port - 1) : ThirdParty(port)

SpecPM == InitPM /\ [][NextPM]_vars

NextBus ==
    \/ \E svc \in BusServices, meth \in Registrable : register_handler(svc, meth)
    \/ \E c \in CallIds, svc \in BusServices, meth \in Methods :
           \E pl \in PayloadsOf(c) : CallStart(c, svc, meth, pl)
    \/ \E c \in CallIds : CallSend(c)
    \/ \E c \in CallIds : WaitSignalled(c)
    \/ \E c \in CallIds : WaitTimeout(c)
    \/ \E c \in CallIds : ReadResponse(c)
    \/ \E c \in CallIds : DelPending(c)
    \/ \E c \in CallIds : ReturnResponse(c)
    \/ \E c \in CallIds : TimeoutCleanup(c)
    \/ \E item \in broker : DeliverRequest(item)
    \/ \E item \in broker : RespCheck(item)
    \/ RespStore
    \/ RespSet
    \/ \E i \in 1..Len(executor), how \in HandlerOutcomes :
           ExecuteHandler(i, how)

\* A bus on its own: no service manager runs.
InitBusOnly ==
    /\ InitBus
    /\ InitIdleSM

SpecBus == InitBusOnly /\ [][NextBus]_vars

\* A bus with one caller, event publishers and event subscribers.
InitEvents ==
    /\ InitBus
    /\ InitIdleSM

NextEvents ==
    \/ \E svc \in BusServices, meth \in Registrable : register_handler(svc, meth)
    \/ \E svc \in BusServices, ev \in EventNames, cb \in EventCallbacks :
           register_event_handler(svc, ev, cb)
    \/ \E svc \in BusServices, ev \in EventNames, pl \in EventPayloads :
           publish_event(svc, ev, pl)
    \/ \E svc \in BusServices, meth \in Methods :
           \E pl \in PayloadsOf(1) : CallStart(1, svc, meth, pl)
    \/ CallSend(1)
    \/ WaitSignalled(1)
    \/ WaitTimeout(1)
    \/ ReadResponse(1)
    \/ DelPending(1)
    \/ ReturnResponse(1)
    \/ TimeoutCleanup(1)
    \/ \E item \in broker : DeliverRequest(item)
    \/ \E item \in broker : RespCheck(item)
    \/ \E item \in broker : DeliverEvent(item)
    \/ RespStore
    \/ RespSet
    \/ \E i \in 1..Len(executor), how \in HandlerOutcomes :
           ExecuteHandler(i, how)

SpecEvents == InitEvents /\ [][NextEvents]_vars

(***************************************************************************)
(* Two bus instances on one broker: the modelled bus issues the calls and  *)
(* has no handler; the second bus has the handler of vin.decode.           *)
(***************************************************************************)
PeerReplySite(request_id) == request_id \o "-peer"

\* The second bus runs _on_message, _handle_service_request and, when it has
\* the handler, _execute_handler on a request of its inbox, and publishes
\* its RESPONSE, which the broker queues for the calling bus.
PeerOnMessage(item) ==
    /\ item \in peer.inbox
    /\ LET msg == item.msg
           handler_key == HandlerKey(msg.service_name, msg.method)
           id == uuid4(PeerReplySite(msg.message_id))
           reply == IF handler_key \in DOMAIN peer.message_handlers
                    THEN HandlerReply(peer.message_handlers[handler_key],
                                      msg, id, "returns")
                    ELSE MissingHandlerReply(msg, id)
       IN  /\ \E k \in Copies :
                  /\ broker' = broker \cup
                         UNION {Published(msg.response_topic, r, k) :
                                r \in reply}
                  /\ dups' = dups + (k - 1)
           /\ sent' = sent \cup reply
    /\ peer' = [peer EXCEPT !.inbox = @ \ {item}]
    /\ UNCHANGED <<message_handlers, pending_requests, request_responses,
                   executor, calls, delivery, arrived, history>>
    /\ UNCHANGED smVars

InitTwoBuses ==
    /\ message_handlers = <<>>
    /\ pending_requests = <<>>
    /\ request_responses = <<>>
    /\ executor = <<>>
    /\ broker = {}
    /\ calls = [c \in CallIds |-> IdleCall]
    /\ delivery = [pc |-> "idle"]
    /\ dups = 0
    /\ sent = {}
    /\ arrived = {}
    /\ history = {}
    /\ peer = [connected |-> TRUE,
               message_handlers |->
                   [k \in {HandlerKey("vin", "decode")} |-> "decode"],
               inbox |-> {}]
    /\ InitIdleSM

NextTwoBuses ==
    \/ \E c \in CallIds : \E pl \in PayloadsOf(c) :
           CallStart(c, "vin", "decode", pl)
    \/ \E c \in CallIds : CallSend(c)
    \/ \E c \in CallIds : WaitSignalled(c)
    \/ \E c \in CallIds : WaitTimeout(c)
    \/ \E c \in CallIds : ReadResponse(c)
    \/ \E c \in CallIds : DelPending(c)
    \/ \E c \in CallIds : ReturnResponse(c)
    \/ \E c \in CallIds : TimeoutCleanup(c)
    \/ \E item \in broker : DeliverRequest(item)
    \/ \E item \in broker : RespCheck(item)
    \/ RespStore
    \/ RespSet
    \/ \E item \in peer.inbox : PeerOnMessage(item)

SpecTwoBuses == InitTwoBuses /\ [][NextTwoBuses]_vars

(***************************************************************************)
(* Asynchronous calls: call_service_async runs call_service on a worker    *)
(* of the executor that also runs the handlers.                            *)
(***************************************************************************)
\* ThreadPoolExecutor(max_workers=10), scaled to the number of callers.
max_workers == 2

\* The callers whose call_service occupies a worker of the pool: every call
\* of this specification is issued through call_service_async.
BusyWorkers == {c \in CallIds : calls[c].pc \notin {"idle", "done"}}

WorkerFree == Cardinality(BusyWorkers) < max_workers

\* call_service_async, lines 300-310: a free worker of self.executor takes
\* the submitted call_service and runs it up to the end of line 269.
call_service_async(c, svc, meth, pl) ==
    /\ WorkerFree
    /\ CallStart(c, svc, meth, pl)

\* A free worker of the pool takes a queued handler task; the handler
\* terminates with a result.
WorkerExecutes(i) ==
    /\ WorkerFree
    /\ ExecuteHandler(i, "returns")

InitAsync ==
    /\ message_handlers =
           [k \in {HandlerKey("vin", "decode")} |-> "decode"]
    /\ pending_requests = <<>>
    /\ request_responses = <<>>
    /\ executor = <<>>
    /\ broker = {}
    /\ calls = [c \in CallIds |-> IdleCall]
    /\ delivery = [pc |-> "idle"]
    /\ dups = 0
    /\ sent = {}
    /\ arrived = {}
    /\ history = {}
    /\ peer = NoPeer
    /\ InitIdleSM

NextAsync ==
    \/ \E c \in CallIds : \E pl \in PayloadsOf(c) \ {Unserializable} :
           call_service_async(c, "vin", "decode", pl)
    \/ \E c \in CallIds : CallSend(c)
    \/ \E c \in CallIds : WaitSignalled(c)
    \/ \E c \in CallIds : WaitTimeout(c)
    \/ \E c \in CallIds : ReadResponse(c)
    \/ \E c \in CallIds : DelPending(c)
    \/ \E c \in CallIds : ReturnResponse(c)
    \/ \E c \in CallIds : TimeoutCleanup(c)
    \/ \E item \in broker : DeliverRequest(item)
    \/ \E item \in broker : RespCheck(item)
    \/ RespStore
    \/ RespSet
    \/ \E i \in 1..Len(executor) : WorkerExecutes(i)

SpecAsync == InitAsync /\ [][NextAsync]_vars

(***************************************************************************)
(* Routing of inbound messages: one caller, event publishers for a service *)
(* named vin and for a service named services, and a monitor that sends a  *)
(* health check.                                                           *)
(***************************************************************************)
RoutedServices == {"vin", "services"}

HealthTopic(svc) == <<base_topic, "health", svc>>

\* A monitor outside the bus publishes a HEALTH_CHECK on health/<name>,
\* which the bus receives through its health/+ subscription.
HealthCheckArrives(svc) ==
    /\ ~\E m \in arrived \cup {item.msg : item \in broker} :
           m.message_type = HEALTH_CHECK
    /\ broker' = broker \cup
           Published(HealthTopic(svc),
                     ServiceMessage(uuid4("health"), HEALTH_CHECK, svc,
                                    "health_check", NoPayload, NoTopic, None),
                     1)
    /\ UNCHANGED <<message_handlers, pending_requests, request_responses,
                   executor, calls, delivery, dups, sent, arrived, history>>
    /\ UNCHANGED peer
    /\ UNCHANGED smVars

\* _on_message routing to _handle_health_check, lines 199-215, on a bus no
\* ServiceNode is registered with: self.services is empty.
DeliverHealth(item) ==
    /\ delivery.pc = "idle"
    /\ item \in broker
    /\ Route(item.topic) = "health"
    /\ broker' = broker \ {item}
    /\ arrived' = arrived \cup {item.msg}
    /\ UNCHANGED <<message_handlers, pending_requests, request_responses,
                   executor, calls, delivery, dups, sent, history>>
    /\ UNCHANGED peer
    /\ UNCHANGED smVars

\* The handler of vin.decode and a callback for the event vin_decoded of
\* each service are registered.
InitRoute ==
    /\ message_handlers =
           [k \in {HandlerKey("vin", "decode")}
                  \cup {EventKey(svc, "vin_decoded") : svc \in RoutedServices}
            |-> IF k = HandlerKey("vin", "decode") THEN "decode" ELSE "cb1"]
    /\ pending_requests = <<>>
    /\ request_responses = <<>>
    /\ executor = <<>>
    /\ broker = {}
    /\ calls = [c \in CallIds |-> IdleCall]
    /\ delivery = [pc |-> "idle"]
    /\ dups = 0
    /\ sent = {}
    /\ arrived = {}
    /\ history = {}
    /\ peer = NoPeer
    /\ InitIdleSM

NextRoute ==
    \/ \E svc \in RoutedServices, pl \in EventPayloads :
           publish_event(svc, "vin_decoded", pl)
    \/ \E svc \in RoutedServices : HealthCheckArrives(svc)
    \/ \E pl \in PayloadsOf(1) : CallStart(1, "vin", "decode", pl)
    \/ CallSend(1)
    \/ WaitSignalled(1)
    \/ WaitTimeout(1)
    \/ ReadResponse(1)
    \/ DelPending(1)
    \/ ReturnResponse(1)
    \/ TimeoutCleanup(1)
    \/ \E item \in broker : DeliverRequest(item)
    \/ \E item \in broker : RespCheck(item)
    \/ \E item \in broker : DeliverEvent(item)
    \/ \E item \in broker : DeliverHealth(item)
    \/ RespStore
    \/ RespSet
    \/ \E i \in 1..Len(executor) : ExecuteHandler(i, "returns")

SpecRoute == InitRoute /\ [][NextRoute]_vars

(***************************************************************************)
(* Concurrent allocate_port calls on one PortManager: each caller is a     *)
(* thread that runs lines 60-74 statement by statement.  mgr holds the     *)
(* position, the candidate port and the returned port of each thread.      *)
(***************************************************************************)
Allocators == {"A", "B"}

AllocIdle == [pc |-> "line60", port |-> NoPort, ret |-> NoPort]

AllocStep(n, t) ==
    /\ mgr' = [mgr EXCEPT !.threads[n] = t]
    /\ lastCall' = [NoCall EXCEPT !.op = "allocate", !.name = n]
    /\ UNCHANGED <<start_port, end_port, occupied, services, disk, processes,
                   procs, result, nextPid>>
    /\ UNCHANGED busVars

\* lines 60-61: the name has a port in the table, or the scan starts.
AllocCheckOwn(n) ==
    /\ mgr.pc = "concurrent"
    /\ mgr.threads[n].pc = "line60"
    /\ IF n \in DOMAIN allocated_ports
       THEN AllocStep(n, [mgr.threads[n] EXCEPT !.pc = "line62",
                              !.port = allocated_ports[n]])
       ELSE AllocStep(n, [mgr.threads[n] EXCEPT !.pc = "line66",
                              !.port = start_port])
    /\ UNCHANGED allocated_ports

\* lines 62-63: the bind probe of the recorded port.
AllocProbeOwn(n) ==
    /\ mgr.pc = "concurrent"
    /\ mgr.threads[n].pc = "line62"
    /\ IF is_port_available(mgr.threads[n].port)
       THEN AllocStep(n, [mgr.threads[n] EXCEPT !.pc = "returned",
                              !.ret = mgr.threads[n].port])
       ELSE AllocStep(n, [mgr.threads[n] EXCEPT !.pc = "line66",
                              !.port = start_port])
    /\ UNCHANGED allocated_ports

\* lines 65-69 and 74: the next port of the range, skipped when reserved or
\* in the table; RuntimeError at the end of the range.
AllocScan(n) ==
    /\ mgr.pc = "concurrent"
    /\ mgr.threads[n].pc = "line66"
    /\ LET port == mgr.threads[n].port
       IN  IF port >= end_port
           THEN AllocStep(n, [mgr.threads[n] EXCEPT !.pc = "raised"])
           ELSE IF \/ port \in reserved_ports
                   \/ port \in Values(allocated_ports)
           THEN AllocStep(n, [mgr.threads[n] EXCEPT !.port = port + 1])
           ELSE AllocStep(n, [mgr.threads[n] EXCEPT !.pc = "line70"])
    /\ UNCHANGED allocated_ports

\* line 70: the bind probe of the candidate.
AllocProbe(n) ==
    /\ mgr.pc = "concurrent"
    /\ mgr.threads[n].pc = "line70"
    /\ IF is_port_available(mgr.threads[n].port)
       THEN AllocStep(n, [mgr.threads[n] EXCEPT !.pc = "line71"])
       ELSE AllocStep(n, [mgr.threads[n] EXCEPT !.pc = "line66",
                              !.port = mgr.threads[n].port + 1])
    /\ UNCHANGED allocated_ports

\* lines 71-72: the table write and the return.
AllocWrite(n) ==
    /\ mgr.pc = "concurrent"
    /\ mgr.threads[n].pc = "line71"
    /\ allocated_ports' = With(allocated_ports, n, mgr.threads[n].port)
    /\ AllocStep(n, [mgr.threads[n] EXCEPT !.pc = "returned",
                         !.ret = mgr.threads[n].port])

\* Two threads enter allocate_port for different names; the table is empty
\* or holds a port for one of the names from an earlier allocation.
InitAllocators ==
    /\ InitBus
    /\ start_port = 8000
    /\ end_port = 8000 + PMRangeLen
    /\ allocated_ports \in {<<>>} \cup
           {[k \in {"A"} |-> port] : port \in 8000..(8000 + PMRangeLen - 1)}
    /\ occupied \in SUBSET (8000..(8000 + PMRangeLen - 1))
    /\ services = <<>>
    /\ disk = <<>>
    /\ processes = <<>>
    /\ procs = <<>>
    /\ mgr = [pc |-> "concurrent", threads |-> [n \in Allocators |-> AllocIdle]]
    /\ lastCall = NoCall
    /\ result = [kind |-> "none"]
    /\ nextPid = 0

NextAllocators ==
    \/ \E n \in Allocators : AllocCheckOwn(n)
    \/ \E n \in Allocators : AllocProbeOwn(n)
    \/ \E n \in Allocators : AllocScan(n)
    \/ \E n \in Allocators : AllocProbe(n)
    \/ \E n \in Allocators : AllocWrite(n)
    \/ \E port \in start_port..(end_port - 1) : ThirdParty(port)

SpecAllocators == InitAllocators /\ [][NextAllocators]_vars

(***************************************************************************)
(* ServiceRegistry, HealthChecker, ServiceManager                          *)
(***************************************************************************)
STOPPED == "stopped"
STARTING == "starting"
RUNNING == "running"
ERROR == "error"

NoEnv == {}

ServiceConfig(name, port, environment, dependencies) ==
    [name |-> name, command |-> <<"python3", name>>, working_dir |-> ".",
     port |-> port, health_endpoint |-> "/health",
     environment |-> environment, dependencies |-> dependencies]

\* The configurations callers register: both leave the port to the port
\* manager; B depends on A and brings an environment.
ServiceNames == {"A", "B"}

Configs ==
    {ServiceConfig("A", NoPort, NoEnv, <<>>),
     ServiceConfig("B", NoPort, {<<"PYTHONPATH", ".">>}, <<"A">>)}

NoUrl == [host |-> None, port |-> NoPort, path |-> None]
HealthUrl(port, health_endpoint) ==
    [host |-> "localhost", port |-> port, path |-> health_endpoint]

\* ServiceInfo as register_service builds it, lines 149-154.
ServiceInfo(config) ==
    [config |-> config, status |-> STOPPED, pid |-> NoPid,
     port |-> config.port, started_at |-> None,
     health_url |-> HealthUrl(config.port, config.health_endpoint)]

\* save_registry: the document written to the registry file.
SaveRegistry(svcs) ==
    [n \in DOMAIN svcs |->
        [config |-> svcs[n].config, status |-> svcs[n].status,
         port |-> svcs[n].port, pid |-> svcs[n].pid,
         started_at |-> svcs[n].started_at]]

\* HealthChecker.check_health: GET health_url answers 200 when a child that
\* has come up listens on the port.
check_health(health_url) ==
    \E pid \in DOMAIN procs :
        procs[pid].up /\ procs[pid].port = health_url.port

\* is_service_healthy
is_service_healthy(service_name) ==
    /\ service_name \in DOMAIN services
    /\ services[service_name].health_url # NoUrl
    /\ check_health(services[service_name].health_url)

\* env['PORT'] = str(port) on a dict
EnvSet(env, k, v) == {kv \in env : kv[1] # k} \cup {<<k, v>>}

Call(op, name, was, pid, probe_ok) ==
    [op |-> op, name |-> name, was |-> was, pid |-> pid,
     probe_ok |-> probe_ok]
Bool(b) == [kind |-> "bool", value |-> b]

StatusOf(name) ==
    IF name \in DOMAIN services THEN services[name].status ELSE None

\* ServiceManager.register_service(config)
register_service(config) ==
    /\ mgr.pc = "idle"
    /\ LET a == IF config.port = NoPort
                THEN AllocatePort(allocated_ports, config.name)
                ELSE [port |-> config.port, table |-> allocated_ports]
           info == ServiceInfo([config EXCEPT !.port = a.port])
       IN  IF a.port = NoPort
           THEN /\ result' = [kind |-> "RuntimeError"]
                /\ UNCHANGED <<allocated_ports, services, disk>>
           ELSE /\ allocated_ports' = a.table
                /\ services' = With(services, config.name, info)
                /\ disk' = SaveRegistry(services')
                /\ result' = [kind |-> "info", value |-> info]
    /\ lastCall' = Call("register", config.name, StatusOf(config.name),
                        NoPid, FALSE)
    /\ UNCHANGED <<start_port, end_port, occupied, processes, procs, mgr,
                   nextPid>>
    /\ UNCHANGED busVars

FailureKinds ==
    {"NotFound", "DependencyUnavailable", "SpawnFailed", "StartupTimeout"}

\* What start_service returns when it fails: return False at line 164
\* (unknown service), 175 (dependency), 211 (Popen raised) and 206 (health
\* timeout).
StartFailure(kind) == Bool(FALSE)

\* The control thread is free to enter start_service(name): it is idle, or
\* restart_service(name) has stopped the service and slept.
CanEnterStart(name) ==
    \/ mgr.pc = "idle"
    \/ mgr.pc = "restart_sleep" /\ mgr.name = name

\* start_service, lines 161-164: unknown service.
StartNotFound(name) ==
    /\ CanEnterStart(name)
    /\ name \notin DOMAIN services
    /\ result' = StartFailure("NotFound")
    /\ mgr' = [pc |-> "idle"]
    /\ lastCall' = Call("start", name, None, NoPid, FALSE)
    /\ UNCHANGED <<start_port, end_port, allocated_ports, occupied, services,
                   disk, processes, procs, nextPid>>
    /\ UNCHANGED busVars

\* A start_service that takes no service for running.
AlreadyRunning_Never(info) == FALSE

\* start_service, line 166
AlreadyRunning(info) == info.status = RUNNING

\* start_service, lines 166-168: already running.
StartAlreadyRunning(name) ==
    /\ CanEnterStart(name)
    /\ name \in DOMAIN services
    /\ AlreadyRunning(services[name])
    /\ result' = Bool(TRUE)
    /\ mgr' = [pc |-> "idle"]
    /\ lastCall' = Call("start", name, services[name].status, NoPid, FALSE)
    /\ UNCHANGED <<start_port, end_port, allocated_ports, occupied, services,
                   disk, processes, procs, nextPid>>
    /\ UNCHANGED busVars

\* start_service, lines 171-175: every dependency passes is_service_healthy.
DependenciesHealthy(config) ==
    \A i \in 1..Len(config.dependencies) :
        is_service_healthy(config.dependencies[i])

\* start_service, lines 170-175: a dependency is not healthy.
StartDependencyUnavailable(name) ==
    /\ CanEnterStart(name)
    /\ name \in DOMAIN services
    /\ ~AlreadyRunning(services[name])
    /\ ~DependenciesHealthy(services[name].config)
    /\ result' = StartFailure("DependencyUnavailable")
    /\ mgr' = [pc |-> "idle"]
    /\ lastCall' = Call("start", name, services[name].status, NoPid, FALSE)
    /\ UNCHANGED <<start_port, end_port, allocated_ports, occupied, services,
                   disk, processes, procs, nextPid>>
    /\ UNCHANGED busVars

\* start_service, lines 177-183: PORT goes into the environment (into the
\* configuration's own dict when it has entries), status STARTING.
StartBegin(name) ==
    /\ CanEnterStart(name)
    /\ name \in DOMAIN services
    /\ ~AlreadyRunning(services[name])
    /\ DependenciesHealthy(services[name].config)
    /\ LET info == services[name]
           env == info.config.environment
       IN  services' = [services EXCEPT
               ![name].config.environment =
                   IF env # NoEnv
                   THEN EnvSet(env, "PORT", ToString(info.port))
                   ELSE env,
               ![name].status = STARTING,
               ![name].started_at = "time"]
    /\ mgr' = [pc |-> "spawn", name |-> name, was |-> services[name].status]
    /\ lastCall' = Call("start", name, services[name].status, NoPid, FALSE)
    /\ UNCHANGED <<start_port, end_port, allocated_ports, occupied, disk,
                   processes, procs, result, nextPid>>
    /\ UNCHANGED busVars

\* start_service(service_name) up to the spawn.
start_service(name) ==
    \/ StartNotFound(name)
    \/ StartAlreadyRunning(name)
    \/ StartDependencyUnavailable(name)
    \/ StartBegin(name)

\* A start_service that puts a service it could not spawn back to STOPPED.
SpawnFailure_Stopped(info) == [info EXCEPT !.status = STOPPED]

\* start_service, lines 208-211: the except branch.
SpawnFailure(info) == [info EXCEPT !.status = ERROR]

\* start_service, lines 185-195 and 208-211: subprocess.Popen starts the
\* child, or raises.
Spawn(ok) ==
    /\ mgr.pc = "spawn"
    /\ ok => nextPid < MaxSpawns
    /\ LET name == mgr.name
           pid == nextPid + 1
       IN  IF ok
           THEN /\ nextPid' = pid
                /\ procs' = With(procs, pid,
                       [name |-> name, port |-> services[name].port,
                        up |-> FALSE])
                /\ services' = [services EXCEPT ![name].pid = pid]
                /\ processes' = With(processes, name, pid)
                /\ mgr' = [pc |-> "wait_for_health", name |-> name,
                           was |-> mgr.was, pid |-> pid, polls |-> 0]
                /\ lastCall' = Call("start", name, mgr.was, pid, FALSE)
                /\ UNCHANGED result
           ELSE /\ services' = [services EXCEPT
                                   ![name] = SpawnFailure(services[name])]
                /\ result' = StartFailure("SpawnFailed")
                /\ mgr' = [pc |-> "idle"]
                /\ lastCall' = Call("start", name, mgr.was, NoPid, FALSE)
                /\ UNCHANGED <<nextPid, procs, processes>>
    /\ UNCHANGED <<start_port, end_port, allocated_ports, occupied, disk>>
    /\ UNCHANGED busVars

\* A start_service that reports every spawned service as running.
StartOutcome_AlwaysRunning(healthy) == RUNNING

\* start_service, lines 198-206: the status after wait_for_health.
StartOutcome(healthy) == IF healthy THEN RUNNING ELSE ERROR

\* wait_for_health, lines 256-261, one turn of the loop, and the end of
\* start_service (lines 198-206) when the loop ends.
PollHealth ==
    /\ mgr.pc = "wait_for_health"
    /\ LET name == mgr.name
           healthy == is_service_healthy(name)
       IN  IF healthy \/ mgr.polls + 1 >= MaxPolls
           THEN /\ services' = [services EXCEPT
                                   ![name].status = StartOutcome(healthy)]
                /\ disk' = IF services'[name].status = RUNNING
                           THEN SaveRegistry(services') ELSE disk
                /\ result' = IF services'[name].status = RUNNING
                             THEN Bool(TRUE)
                             ELSE StartFailure("StartupTimeout")
                /\ mgr' = [pc |-> "idle"]
                /\ lastCall' = Call("start", name, mgr.was, mgr.pid, healthy)
           ELSE /\ mgr' = [mgr EXCEPT !.polls = mgr.polls + 1]
                /\ lastCall' = Call("start", name, mgr.was, mgr.pid, FALSE)
                /\ UNCHANGED <<services, disk, result>>
    /\ UNCHANGED <<start_port, end_port, allocated_ports, occupied,
                   processes, procs, nextPid>>
    /\ UNCHANGED busVars

\* A stop_service that also stops the services depending on the named one.
StopTargets_Cascade(name) ==
    {name} \cup {n \in DOMAIN services :
                    \E i \in 1..Len(services[n].config.dependencies) :
                        services[n].config.dependencies[i] = name}

\* stop_service, line 215: the one entry stop_service works on.
StopTargets(name) == {name}

\* stop_service, lines 229-230
StoppedInfo(info) == [info EXCEPT !.status = STOPPED, !.pid = NoPid]

\* The process stop_service terminates: the handle tracked under the name.
TrackedPid(name) ==
    IF name \in DOMAIN processes THEN processes[name] ELSE NoPid

\* stop_service, lines 215-234, leaving the control thread at pc.
StopService(name, pc) ==
    /\ mgr.pc = "idle"
    /\ mgr' = pc
    /\ IF name \notin DOMAIN services
       THEN /\ result' = Bool(FALSE)
            /\ UNCHANGED <<allocated_ports, services, disk, processes, procs>>
       ELSE /\ procs' = IF name \in DOMAIN processes
                        THEN Without(procs, processes[name]) ELSE procs
            /\ processes' = Without(processes, name)
            /\ services' = [n \in DOMAIN services |->
                                IF n \in StopTargets(name)
                                THEN StoppedInfo(services[n])
                                ELSE services[n]]
            /\ allocated_ports' = FreePort(allocated_ports, name)
            /\ disk' = SaveRegistry(services')
            /\ result' = Bool(TRUE)
    /\ UNCHANGED <<start_port, end_port, occupied, nextPid>>
    /\ UNCHANGED busVars

\* ServiceManager.stop_service(service_name)
stop_service(name) ==
    /\ StopService(name, [pc |-> "idle"])
    /\ lastCall' = Call("stop", name, StatusOf(name), TrackedPid(name), FALSE)

\* ServiceManager.restart_service, lines 238-239: stop, then sleep; line
\* 240 is start_service entered from restart_sleep.
restart_service(name) ==
    /\ StopService(name, [pc |-> "restart_sleep", name |-> name])
    /\ lastCall' = Call("restart", name, StatusOf(name), TrackedPid(name),
                        FALSE)

\* A status query that probes whatever the status is.
ProbesHealth_Always(info) == TRUE

\* get_service_status, line 275: the probe is made for a RUNNING service.
ProbesHealth(info) == info.status = RUNNING

\* get_service_status, lines 269-276: the dict returned for a registered
\* service.
StatusReport(name) ==
    [name |-> services[name].config.name,
     status |-> services[name].status,
     port |-> services[name].port,
     pid |-> services[name].pid,
     health_url |-> services[name].health_url,
     healthy |-> IF ProbesHealth(services[name])
                 THEN is_service_healthy(name)
                 ELSE FALSE]

\* ServiceManager.get_service_status(service_name)
get_service_status(name) ==
    /\ mgr.pc = "idle"
    /\ result' =
           IF name \notin DOMAIN services
           THEN [kind |-> "error", value |-> "Service not found"]
           ELSE [kind |-> "status", value |-> StatusReport(name)]
    /\ lastCall' = Call("status", name, StatusOf(name), NoPid, FALSE)
    /\ UNCHANGED <<start_port, end_port, allocated_ports, occupied, services,
                   disk, processes, procs, mgr, nextPid>>
    /\ UNCHANGED busVars

\* ServiceManager.list_all_services(): the reports of all registered
\* services, by name.
list_all_services ==
    /\ mgr.pc = "idle"
    /\ result' = [kind |-> "list",
                  value |-> [n \in DOMAIN services |-> StatusReport(n)]]
    /\ lastCall' = Call("list", None, None, NoPid, FALSE)
    /\ UNCHANGED <<start_port, end_port, allocated_ports, occupied, services,
                   disk, processes, procs, mgr, nextPid>>
    /\ UNCHANGED busVars

(***************************************************************************)
(* The child processes (external): a child binds the port it was given     *)
(* in PORT and answers its health endpoint, when no other process holds    *)
(* the port; a child may exit at any time.                                 *)
(***************************************************************************)
ChildComesUp(pid) ==
    /\ pid \in DOMAIN procs
    /\ ~procs[pid].up
    /\ procs[pid].port \notin BoundPorts
    /\ procs' = [procs EXCEPT ![pid].up = TRUE]
    /\ lastCall' = EnvStep
    /\ UNCHANGED <<start_port, end_port, allocated_ports, occupied, services,
                   disk, processes, mgr, result, nextPid>>
    /\ UNCHANGED busVars

ChildExits(pid) ==
    /\ pid \in DOMAIN procs
    /\ procs' = Without(procs, pid)
    /\ lastCall' = EnvStep
    /\ UNCHANGED <<start_port, end_port, allocated_ports, occupied, services,
                   disk, processes, mgr, result, nextPid>>
    /\ UNCHANGED busVars

\* A service manager on its own: no bus runs.
InitSM ==
    /\ InitBus
    /\ InitIdleSM

NextSM ==
    \/ \E config \in Configs : register_service(config)
    \/ \E n \in ServiceNames : start_service(n)
    \/ \E ok \in BOOLEAN : Spawn(ok)
    \/ PollHealth
    \/ \E n \in ServiceNames : stop_service(n)
    \/ \E n \in ServiceNames : restart_service(n)
    \/ \E n \in ServiceNames : get_service_status(n)
    \/ list_all_services
    \/ \E pid \in DOMAIN procs : ChildComesUp(pid)
    \/ \E pid \in DOMAIN procs : ChildExits(pid)
    \/ \E port \in start_port..(end_port - 1) : ThirdParty(port)

SpecSM == InitSM /\ [][NextSM]_vars

(***************************************************************************)
(* Properties of the bus, checked under SpecBus.                           *)
(***************************************************************************)
ResponsesTo(id) ==
    {m \in sent : m.message_type = RESPONSE /\ m.correlation_id = id}

\* The payloads a reply to the request of call c can carry.
RepliesTo(c) ==
    {ErrorPayload("No handler for "
         \o HandlerKey(calls[c].service_name, calls[c].method)),
     ErrorPayload(RunHandler(calls[c].method, calls[c].payload, "raises")[2]),
     ErrorPayload(DumpsError),
     RunHandler(calls[c].method, calls[c].payload, "returns")[2]}

RequestPublished(c) ==
    \E m \in sent : m.message_type = REQUEST
                    /\ m.message_id = calls[c].message_id

ResponseArrived(c) ==
    \E m \in arrived : m.message_type = RESPONSE
                       /\ m.correlation_id = calls[c].message_id

\* C1: whatever the number of calls in flight and the order of delivery, a
\* call that returns, returns the payload of a RESPONSE whose correlation id
\* is the message id of its own request, and that payload is a reply to its
\* own request (its method, its payload), never one made for another call.
C1_ResponsesCorrelated ==
    \A c \in CallIds :
        calls[c].outcome.kind = "return" =>
            /\ \E m \in ResponsesTo(calls[c].message_id) :
                   m.payload = calls[c].outcome.value
            /\ calls[c].outcome.value \in RepliesTo(c)

\* Call 2 has returned its own result while call 1, in flight at the same
\* time, still waits and its response is still at the broker.
C1_Witness ==
    /\ calls[2].outcome.kind = "return"
    /\ calls[2].outcome.value = <<"result of decode", "p2">>
    /\ calls[1].pc = "waiting"
    /\ ~calls[1].event
    /\ \E item \in broker : item.msg \in ResponsesTo(calls[1].message_id)

\* C2: once call_service has ended, by any exit path and under any
\* interleaving with _handle_response, the bus holds neither the Event
\* (pending_requests) nor the response slot (request_responses) of that call.
C2_NoPendingStateAfterCall ==
    \A c \in CallIds :
        calls[c].pc = "done" =>
            /\ calls[c].message_id \notin DOMAIN pending_requests
            /\ calls[c].message_id \notin DOMAIN request_responses

\* C3: a call whose published request gets no response never returns a
\* value; while it waits, the end of the window is what ends the wait; and
\* it ends with TimeoutError, leaving no entry of its message id in
\* pending_requests or request_responses.
C3_TimeoutWithoutResponse ==
    \A c \in CallIds :
        (RequestPublished(c) /\ ~ResponseArrived(c)) =>
            /\ calls[c].outcome.kind \in {"none", "timeout"}
            /\ calls[c].pc \in {"waiting", "timedout", "done"}
            /\ calls[c].pc = "waiting" => ENABLED WaitTimeout(c)
            /\ calls[c].pc = "done" =>
                   /\ calls[c].outcome.kind = "timeout"
                   /\ calls[c].message_id \notin DOMAIN pending_requests
                   /\ calls[c].message_id \notin DOMAIN request_responses

\* A call has timed out, its request published and no response delivered.
C3_Witness ==
    \E c \in CallIds :
        /\ RequestPublished(c)
        /\ ~ResponseArrived(c)
        /\ calls[c].pc = "done"
        /\ calls[c].outcome.kind = "timeout"

\* C4: for a call to a (service, method) without a handler, the error
\* RESPONSE naming the missing handler is published in the step that routes
\* the request; once it has been delivered to the waiting call the timeout
\* can no longer end the wait, and what the call returns is that error.
C4_MissingHandlerOneRoundTrip ==
    \A c \in CallIds :
        LET handler_key == HandlerKey(calls[c].service_name, calls[c].method)
            err == ErrorPayload("No handler for " \o handler_key)
        IN  (calls[c].pc # "idle"
             /\ handler_key \notin DOMAIN message_handlers) =>
                /\ (\E m \in arrived : m.message_type = REQUEST
                        /\ m.message_id = calls[c].message_id)
                   => \E r \in ResponsesTo(calls[c].message_id) :
                          r.payload = err
                /\ (calls[c].pc = "waiting" /\ calls[c].event)
                   => (~ENABLED WaitTimeout(c) /\ ENABLED WaitSignalled(c))
                /\ calls[c].pc \in {"read", "unregistered"}
                   => calls[c].response = err
                /\ calls[c].outcome.kind = "return"
                   => calls[c].outcome.value = err

\* A call to a method without a handler has returned the error.
C4_Witness ==
    \E c \in CallIds :
        /\ HandlerKey(calls[c].service_name, calls[c].method)
               \notin DOMAIN message_handlers
        /\ calls[c].outcome.kind = "return"
        /\ calls[c].outcome.value =
               ErrorPayload("No handler for vin.nope")

(***************************************************************************)
(* Properties of the port manager, checked under SpecPM.                   *)
(***************************************************************************)

\* C5: after any sequence of allocate and free calls no two service names
\* hold the same port in the allocation table, and the port allocate returns
\* is not one the table records for another name.
C5_PortsExclusive ==
    /\ \A n1, n2 \in DOMAIN allocated_ports :
           n1 # n2 => allocated_ports[n1] # allocated_ports[n2]
    /\ (lastCall.op = "allocate" /\ result.kind = "port") =>
           \A o \in DOMAIN allocated_ports \ {lastCall.name} :
               allocated_ports[o] # result.value

\* allocate has passed over a port that is free to bind because another
\* name holds it, and returned the next one.
C5_Witness ==
    /\ lastCall.op = "allocate"
    /\ result.kind = "port"
    /\ result.value = start_port + 1
    /\ is_port_available(start_port)
    /\ \E o \in DOMAIN allocated_ports \ {lastCall.name} :
           allocated_ports[o] = start_port

\* C6: the port allocate returns passed its bind probe in that call, on the
\* reuse path as on the scan path: it is bound by no other process, also
\* when neither the table nor the reserved set names that process's port.
C6_ReturnedPortProbed ==
    (lastCall.op = "allocate" /\ result.kind = "port") =>
        /\ is_port_available(result.value)
        /\ result.value \notin occupied

\* allocate has passed over a port held by a third party that is neither
\* in the table nor reserved.
C6_Witness ==
    /\ lastCall.op = "allocate"
    /\ result.kind = "port"
    /\ \E port \in occupied :
           /\ port < result.value
           /\ port >= start_port
           /\ port \notin reserved_ports
           /\ port \notin Values(allocated_ports)

(***************************************************************************)
(* ServiceRegistry on its own: a registry holding any set of services in   *)
(* any statuses is saved, changed in memory, and loaded by a fresh         *)
(* instance over the same file.                                            *)
(***************************************************************************)
\* A load_registry that does not read the status.
LoadStatus_Default(service_data) == STOPPED

\* load_registry, line 101
LoadStatus(service_data) == service_data.status

\* load_registry, lines 96-105: what a fresh instance builds from the
\* document; started_at and health_url keep the dataclass defaults.
LoadRegistry(doc) ==
    [n \in DOMAIN doc |->
        [config |-> doc[n].config, status |-> LoadStatus(doc[n]),
         pid |-> doc[n].pid, port |-> doc[n].port,
         started_at |-> None, health_url |-> NoUrl]]

Statuses == {STOPPED, STARTING, RUNNING, ERROR}

\* The entries a registry can hold for a name: the registered configuration
\* with its port, before or after a start has written PORT into its
\* environment, in any status.
InfosOf(config) ==
    LET port == IF config.name = "A" THEN 8000 ELSE 8001
        ready == [config EXCEPT !.port = port]
        started == [ready EXCEPT
                       !.environment = EnvSet(config.environment, "PORT",
                                              ToString(port))]
    IN  {[ServiceInfo(c) EXCEPT !.status = st, !.pid = pid,
                                !.started_at = at] :
            c \in {ready} \cup (IF config.environment # NoEnv
                                THEN {started} ELSE {}),
            st \in Statuses, pid \in {NoPid, 1}, at \in {None, "time"}}

RegistryInputs ==
    UNION {[S -> UNION {InfosOf(c) : c \in Configs}] : S \in SUBSET ServiceNames}

InitReg ==
    /\ InitBus
    /\ start_port = 8000
    /\ end_port = 8000 + RangeLen
    /\ allocated_ports = <<>>
    /\ occupied = {}
    /\ services \in {r \in RegistryInputs :
                        \A n \in DOMAIN r : r[n].config.name = n}
    /\ disk = <<>>
    /\ processes = <<>>
    /\ procs = <<>>
    /\ mgr = [pc |-> "idle"]
    /\ lastCall = NoCall
    /\ result = [kind |-> "none"]
    /\ nextPid = 0

\* ServiceRegistry.save_registry()
save_registry ==
    /\ disk' = SaveRegistry(services)
    /\ lastCall' = Call("save", None, None, NoPid, FALSE)
    /\ UNCHANGED <<start_port, end_port, allocated_ports, occupied, services,
                   processes, procs, mgr, result, nextPid>>
    /\ UNCHANGED busVars

\* ServiceRegistry.__init__ of a fresh instance over the same file:
\* load_registry().
load_registry ==
    /\ services' = LoadRegistry(disk)
    /\ lastCall' = Call("load", None, None, NoPid, FALSE)
    /\ UNCHANGED <<start_port, end_port, allocated_ports, occupied, disk,
                   processes, procs, mgr, result, nextPid>>
    /\ UNCHANGED busVars

\* An in-memory status write that is not followed by a save (start_service,
\* lines 182 and 204).
StatusWrite(name, status) ==
    /\ name \in DOMAIN services
    /\ services' = [services EXCEPT ![name].status = status]
    /\ lastCall' = Call("write", name, services[name].status, NoPid, FALSE)
    /\ UNCHANGED <<start_port, end_port, allocated_ports, occupied, disk,
                   processes, procs, mgr, result, nextPid>>
    /\ UNCHANGED busVars

NextReg ==
    \/ save_registry
    \/ load_registry
    \/ \E n \in ServiceNames : \E st \in {STARTING, ERROR} : StatusWrite(n, st)

SpecReg == InitReg /\ [][NextReg]_vars

(***************************************************************************)
(* The registry file under concurrent use: save_registry runs statement by *)
(* statement in two writers while a reader loads.  disk is the content of  *)
(* the file as a sequence of the pieces json.dump writes; mgr holds the    *)
(* position of each writer and what the reader got.                        *)
(***************************************************************************)
Savers == {"s1", "s2"}

DumpOrder == <<"A", "B">>

\* json.dump(data, f): the pieces of the document, in the order of the dict.
Dumps(data) ==
    LET names == SelectSeq(DumpOrder, LAMBDA n : n \in DOMAIN data)
    IN  <<[kind |-> "{"]>>
        \o [i \in 1..Len(names) |->
               [kind |-> "entry", name |-> names[i], data |-> data[names[i]]]]
        \o <<[kind |-> "}"]>>

\* The bytes never written between the end of a truncated file and the
\* position a writer writes at.
Hole == [kind |-> "hole"]

\* json.load(f): the document of a well-formed content, or the
\* JSONDecodeError.
Loads(content) ==
    LET n == Len(content)
        wellFormed ==
            /\ n >= 2
            /\ content[1].kind = "{"
            /\ content[n].kind = "}"
            /\ \A i \in 2..(n - 1) : content[i].kind = "entry"
        last(name) ==
            CHOOSE i \in 2..(n - 1) :
                /\ content[i].name = name
                /\ \A j \in 2..(n - 1) : content[j].name = name => j <= i
    IN  IF wellFormed
        THEN [kind |-> "document",
              data |-> [name \in {content[i].name : i \in 2..(n - 1)} |->
                           content[last(name)].data]]
        ELSE [kind |-> "JSONDecodeError"]

\* f.write at the writer's own position of a file opened with 'w'.
WriteAt(content, pos, pieces) ==
    LET end == pos + Len(pieces)
        len == IF end > Len(content) THEN end ELSE Len(content)
    IN  [i \in 1..len |->
            IF i > pos /\ i <= end THEN pieces[i - pos]
            ELSE IF i <= Len(content) THEN content[i]
            ELSE Hole]

\* The registries the writers hold: none, A registered, A running with B
\* registered.
SaverRegistries ==
    LET a == ServiceInfo(ServiceConfig("A", 8000, NoEnv, <<>>))
        b == ServiceInfo(ServiceConfig("B", 8001, NoEnv, <<"A">>))
    IN  {<<>>,
         [n \in {"A"} |-> a],
         [n \in {"A", "B"} |->
             IF n = "A" THEN [a EXCEPT !.status = RUNNING, !.pid = 1]
             ELSE b]}

FileStep(op) ==
    /\ lastCall' = Call(op, None, None, NoPid, FALSE)
    /\ UNCHANGED <<start_port, end_port, allocated_ports, occupied, services,
                   processes, procs, result, nextPid>>
    /\ UNCHANGED busVars

\* save_registry, lines 111-121: data is built and open(registry_file, 'w')
\* truncates the file.
SaveOpen(w) ==
    /\ mgr.pc = "file"
    /\ mgr.savers[w].pc = "line121"
    /\ disk' = <<>>
    /\ mgr' = [mgr EXCEPT !.savers[w].pc = "line122"]
    /\ FileStep("save")

\* save_registry, line 122: the next k pieces json.dump has produced reach
\* the file; after the last one the file is closed.
SaveWrite(w, k) ==
    /\ mgr.pc = "file"
    /\ mgr.savers[w].pc = "line122"
    /\ LET me == mgr.savers[w]
           pieces == Dumps(me.data)
       IN  /\ k \in 1..(Len(pieces) - me.pos)
           /\ disk' = WriteAt(disk, me.pos,
                              SubSeq(pieces, me.pos + 1, me.pos + k))
           /\ mgr' = [mgr EXCEPT
                  !.savers[w].pos = me.pos + k,
                  !.savers[w].pc = IF me.pos + k = Len(pieces)
                                   THEN "returned" ELSE "line122"]
    /\ FileStep("save")

\* load_registry, lines 93-107: the file is read and parsed; a parse error
\* is caught and printed.
LoadFile ==
    /\ mgr.pc = "file"
    /\ mgr' = [mgr EXCEPT !.loaded = Loads(disk)]
    /\ disk' = disk
    /\ FileStep("load")

\* The file holds the complete document of an earlier save; each writer
\* enters save_registry with its registry.
InitFile ==
    /\ InitBus
    /\ start_port = 8000
    /\ end_port = 8000 + RangeLen
    /\ allocated_ports = <<>>
    /\ occupied = {}
    /\ services = <<>>
    /\ processes = <<>>
    /\ procs = <<>>
    /\ \E previous \in SaverRegistries, data \in [Savers -> SaverRegistries] :
           /\ disk = Dumps(SaveRegistry(previous))
           /\ mgr = [pc |-> "file",
                     previous |-> SaveRegistry(previous),
                     savers |-> [w \in Savers |->
                                    [pc |-> "line121", pos |-> 0,
                                     data |-> SaveRegistry(data[w])]],
                     loaded |-> [kind |-> "none"]]
    /\ lastCall = NoCall
    /\ result = [kind |-> "none"]
    /\ nextPid = 0

NextFile ==
    \/ \E w \in Savers : SaveOpen(w)
    \/ \E w \in Savers, k \in 1..4 : SaveWrite(w, k)
    \/ LoadFile

SpecFile == InitFile /\ [][NextFile]_vars

(***************************************************************************)
(* Properties of the service manager, checked under SpecSM.                *)
(***************************************************************************)
Untouched ==
    /\ services' = services
    /\ processes' = processes
    /\ procs' = procs
    /\ nextPid' = nextPid
    /\ allocated_ports' = allocated_ports
    /\ disk' = disk

\* C7: start(name) on a service whose status is RUNNING returns success and
\* changes nothing: no process is spawned, and the status, pid, port and
\* tracked process handle of every service stay as they were, so any number
\* of such calls in a row leaves exactly the processes that were there.
C7_StartOnRunningIsNoOp ==
    [][\A n \in ServiceNames :
        (/\ lastCall'.op = "start"
         /\ lastCall'.name = n
         /\ n \in DOMAIN services
         /\ services[n].status = RUNNING)
        => (/\ result' = Bool(TRUE)
            /\ mgr'.pc = "idle"
            /\ Untouched)]_vars

\* A start was called on a running service and answered success.
C7_Witness ==
    /\ lastCall.op = "start"
    /\ lastCall.was = RUNNING
    /\ mgr.pc = "idle"
    /\ result = Bool(TRUE)
    /\ services[lastCall.name].status = RUNNING
    /\ lastCall.name \in DOMAIN processes
    /\ services[lastCall.name].pid = processes[lastCall.name]

\* The step enters start_service(b).
EntersStart(b) ==
    /\ CanEnterStart(b)
    /\ lastCall'.op = "start"
    /\ lastCall'.name = b

HasStoppedDependency(b) ==
    /\ b \in DOMAIN services
    /\ \E i \in 1..Len(services[b].config.dependencies) :
          LET a == services[b].config.dependencies[i]
          IN  a \in DOMAIN services /\ services[a].status = STOPPED

\* C8: start(B) when a declared dependency A of B has status STOPPED fails
\* (returns False), spawns no process, records no pid for B and leaves B's
\* status unchanged.
C8_StoppedDependencyBlocksStart ==
    [][\A b \in ServiceNames :
        (/\ EntersStart(b)
         /\ HasStoppedDependency(b)
         /\ services[b].status # RUNNING)
        => (/\ result' = Bool(FALSE)
            /\ mgr'.pc = "idle"
            /\ Untouched)]_vars

ClaimedEdges ==
    {<<STOPPED, STARTING>>, <<ERROR, STARTING>>, <<STARTING, RUNNING>>,
     <<STARTING, ERROR>>, <<RUNNING, STOPPED>>}

StatusEdges ==
    {<<services[n].status, services'[n].status>> :
        n \in {m \in DOMAIN services \cap DOMAIN services' :
                  services'[m].status # services[m].status}}

\* C9 as stated: every change of a service's status is one of
\* STOPPED->STARTING, ERROR->STARTING, STARTING->RUNNING, STARTING->ERROR
\* or RUNNING->STOPPED.
C9_OnlyClaimedEdges ==
    [][StatusEdges \subseteq ClaimedEdges]_vars

\* C9, amended: every change of a service's status is one of
\* STOPPED->STARTING, ERROR->STARTING, STARTING->RUNNING, STARTING->ERROR,
\* RUNNING->STOPPED or ERROR->STOPPED, and the two edges into STOPPED are
\* made only by a stop (alone or as the first half of restart) or by
\* registering the name again; a newly registered name starts STOPPED.
C9_StatusEdges ==
    [][/\ StatusEdges \subseteq ClaimedEdges \cup {<<ERROR, STOPPED>>}
       /\ \A e \in StatusEdges :
             e[2] = STOPPED => lastCall'.op \in {"stop", "restart", "register"}
       /\ \A n \in DOMAIN services' \ DOMAIN services :
             services'[n].status = STOPPED]_vars

\* A stop has taken a service from ERROR to STOPPED.
C9_Witness ==
    /\ lastCall.op = "stop"
    /\ lastCall.was = ERROR
    /\ lastCall.name \in DOMAIN services
    /\ services[lastCall.name].status = STOPPED

StopsRegistered(n) ==
    /\ lastCall'.op \in {"stop", "restart"}
    /\ lastCall'.name = n
    /\ n \in DOMAIN services

\* C11: after stop(name) of a registered service, whatever its status was,
\* the answer is success, the process that was tracked under the name is
\* gone and no process is tracked under the name, the allocation table has
\* no port for the name, the status is STOPPED with no pid, and the
\* registry file is the snapshot of that state.
C11_StopPostcondition ==
    [][\A n \in ServiceNames :
        StopsRegistered(n)
        => (/\ result' = Bool(TRUE)
            /\ n \notin DOMAIN processes'
            /\ n \in DOMAIN processes => processes[n] \notin DOMAIN procs'
            /\ n \notin DOMAIN allocated_ports'
            /\ services'[n].status = STOPPED
            /\ services'[n].pid = NoPid
            /\ disk' = SaveRegistry(services')
            /\ disk'[n].status = STOPPED
            /\ disk'[n].pid = NoPid)]_vars

\* A running service with a live tracked process and an allocated port has
\* been stopped.
C11_Witness ==
    /\ lastCall.op = "stop"
    /\ lastCall.was = RUNNING
    /\ lastCall.pid # NoPid
    /\ lastCall.pid \notin DOMAIN procs
    /\ services[lastCall.name].status = STOPPED
    /\ lastCall.name \notin DOMAIN allocated_ports
    /\ disk[lastCall.name].status = STOPPED

\* C12: stop(A) changes no field of the runtime info of any other service
\* B, nor B's tracked process, whether or not B depends on A; and a status
\* query reports the recorded status, so B is still reported RUNNING.
C12_StopDoesNotCascade ==
    [][/\ \A a \in ServiceNames : \A b \in DOMAIN services \ {a} :
            StopsRegistered(a)
            => (/\ services'[b] = services[b]
                /\ b \in DOMAIN processes
                   => (/\ b \in DOMAIN processes'
                       /\ processes'[b] = processes[b]
                       /\ processes[b] \in DOMAIN procs
                          => (/\ processes[b] \in DOMAIN procs'
                              /\ procs'[processes[b]] = procs[processes[b]])))
       /\ \A b \in DOMAIN services :
            (lastCall'.op = "status" /\ lastCall'.name = b)
            => (/\ result'.kind = "status"
                /\ result'.value.status = services[b].status
                /\ services' = services)]_vars

\* B depends on A and was started while A was healthy; A has since been
\* stopped and answers no probe, and a status query on B reports RUNNING.
C12_Witness ==
    /\ lastCall.op = "status"
    /\ lastCall.name = "B"
    /\ result.kind = "status"
    /\ result.value.status = RUNNING
    /\ "A" \in DOMAIN services
    /\ services["B"].config.dependencies = <<"A">>
    /\ services["A"].status = STOPPED
    /\ ~is_service_healthy("A")
    /\ "B" \in DOMAIN processes
    /\ processes["B"] \in DOMAIN procs

OneResponse(i, Payloads(_, _)) ==
    LET task == executor[i]
        req == task.message
        new == sent' \ sent
    IN  /\ executor' = RemoveAt(executor, i)
        /\ req.response_topic # NoTopic
           => /\ Cardinality(new) = 1
              /\ \A r \in new :
                    /\ r.message_type = RESPONSE
                    /\ r.correlation_id = req.message_id
                    /\ r.payload \in Payloads(message_handlers[task.handler_key],
                                              req.payload)
                    /\ broker' \ broker # {}
                    /\ \A item \in broker' \ broker :
                          /\ item.topic = req.response_topic
                          /\ item.msg = r

\* The handler's return value, or an error payload made of what it raised.
ClaimedPayloads(h, pl) ==
    {RunHandler(h, pl, "returns")[2], RunHandler(h, pl, "returns_object")[2],
     ErrorPayload(RunHandler(h, pl, "raises")[2])}

EncodableOrError(h, pl) ==
    {RunHandler(h, pl, "returns")[2],
     ErrorPayload(RunHandler(h, pl, "raises")[2]),
     ErrorPayload(DumpsError)}

\* C14 as stated: for every REQUEST with a reply-to topic that a worker
\* runs the registered handler for, exactly one RESPONSE is published to
\* that topic, with the request's message id as correlation id, carrying
\* the handler's return value, or an error payload if the handler raised.
C14_OneResponseValueOrRaised ==
    [][Len(executor') < Len(executor)
        => \E i \in 1..Len(executor) : OneResponse(i, ClaimedPayloads)]_vars

\* C14, amended: ... carrying the handler's return value, or an error
\* payload if the handler raised or if its return value cannot be encoded
\* as JSON.
C14_OneResponsePerRequest ==
    [][Len(executor') < Len(executor)
        => \E i \in 1..Len(executor) : OneResponse(i, EncodableOrError)]_vars

\* A handler returned an object json.dumps cannot encode, and the response
\* to the request that arrived carries the error payload of the TypeError.
C14_Witness ==
    \E r \in sent :
        /\ r.message_type = RESPONSE
        /\ r.payload = ErrorPayload(DumpsError)
        /\ \E q \in arrived : /\ q.message_type = REQUEST
                              /\ q.message_id = r.correlation_id
                              /\ q.response_topic # NoTopic

(***************************************************************************)
(* Properties checked under SpecEvents.                                    *)
(***************************************************************************)
\* Whatever has happened, the delivery thread takes every message waiting
\* at the broker (request, response or event) when it is between messages,
\* and a worker can run every queued task.
EveryMessageRouted ==
    /\ delivery.pc = "idle"
       => \A item \in broker :
             \/ ENABLED DeliverRequest(item)
             \/ ENABLED RespCheck(item)
             \/ ENABLED DeliverEvent(item)
    /\ delivery.pc # "idle" => ENABLED (RespStore \/ RespSet)
    /\ \A i \in 1..Len(executor) : ENABLED ExecuteHandler(i, "returns")

\* A worker has run a handler: the task, and only the task, leaves the
\* pool, the handler table, the pending calls, the response slots and the
\* delivery thread are as before, and a request with a reply-to topic is
\* answered with one RESPONSE.
HandlerRunContained ==
    Len(executor') < Len(executor)
    => /\ \E i \in 1..Len(executor) : OneResponse(i, EncodableOrError)
       /\ UNCHANGED <<message_handlers, pending_requests, request_responses,
                      delivery, calls>>

\* C15: a handler that raises does not stop the bus: what it raises is
\* caught in the worker and answered with an error RESPONSE, the bus's
\* tables and threads are as they would be had it returned, and every
\* message delivered afterwards is still routed.
C15_RaisingHandlerContained ==
    []EveryMessageRouted /\ [][HandlerRunContained]_vars

\* The handler of call 1's request raised, and the caller has got the error
\* RESPONSE, while an event that has a callback is still to be delivered.
C15_Witness ==
    /\ calls[1].outcome.kind = "return"
    /\ calls[1].outcome.value = ErrorPayload("decode failed")
    /\ delivery.pc = "idle"
    /\ \E item \in broker :
          /\ item.msg.message_type = EVENT
          /\ EventKey(item.msg.service_name, item.msg.method)
                \in DOMAIN message_handlers

(***************************************************************************)
(* More properties of the bus, checked under SpecBus.                      *)
(***************************************************************************)
\* The step hands the RESPONSE item to _handle_response.
DeliversResponse(item) ==
    /\ delivery.pc = "idle"
    /\ Route(item.topic) = "responses"
    /\ item \notin broker'
    /\ item.msg \in arrived'

\* C16: an inbound RESPONSE whose correlation id is not in pending_requests
\* (late after a timeout, duplicate after the call completed, or unknown)
\* is discarded: the pending calls, the response slots and the handler
\* table stay as they are, no waiter is signalled, nothing is published or
\* queued, and the delivery thread is free for the next message.
C16_UnmatchedResponseDiscarded ==
    [][\A item \in broker :
        (/\ DeliversResponse(item)
         /\ item.msg.correlation_id \notin DOMAIN pending_requests)
        => (/\ UNCHANGED <<pending_requests, request_responses,
                           message_handlers, calls, executor, sent>>
            /\ delivery'.pc = "idle")]_vars

\* A call has timed out and removed its pending entry; its response came
\* afterwards, has been handed to _handle_response, and left no slot.
C16_Witness ==
    \E c \in CallIds :
        /\ calls[c].pc = "done"
        /\ calls[c].outcome.kind = "timeout"
        /\ ResponseArrived(c)
        /\ delivery.pc = "idle"
        /\ calls[c].message_id \notin DOMAIN request_responses
        /\ calls[c].message_id \notin DOMAIN pending_requests

(***************************************************************************)
(* More properties checked under SpecEvents.                               *)
(***************************************************************************)
\* The callbacks register_event_handler has been called with for key.
CallbacksFor(key) ==
    {x.handler : x \in {y \in history : y.kind = "registered" /\ y.key = key}}

\* C17: when a worker dispatches an inbound EVENT, every callback that has
\* been registered for its (service, event name) is invoked with it.
C17_AllCallbacksInvoked ==
    [][\A i \in 1..Len(executor) :
        (/\ Len(executor') < Len(executor)
         /\ executor' = RemoveAt(executor, i)
         /\ executor[i].message.message_type = EVENT)
        => \A cb \in CallbacksFor(executor[i].handler_key) :
              Invoked(cb, executor[i].message, executor[i].copy)
                  \in history']_vars

IsErrorPayload(pl) == Len(pl) = 2 /\ pl[1] = "error"

\* C18 (checked under SpecBus): call_service returns a payload only when it
\* is a normal result; a call whose matched RESPONSE carries an error
\* payload (missing handler, or what the handler raised) ends by raising,
\* never by returning the error payload as its value.
C18_ErrorResponseRaises ==
    \A c \in CallIds :
        calls[c].outcome.kind = "return"
        => ~IsErrorPayload(calls[c].outcome.value)

(***************************************************************************)
(* More properties of the service manager, checked under SpecSM.           *)
(***************************************************************************)
\* The way in which the step ends a start_service in failure, None when it
\* does not.
FailureOfStep ==
    IF lastCall'.op # "start" \/ mgr'.pc # "idle" THEN None
    ELSE IF mgr.pc = "spawn" THEN "SpawnFailed"
    ELSE IF mgr.pc = "wait_for_health"
    THEN (IF result'.value THEN None ELSE "StartupTimeout")
    ELSE IF lastCall'.name \notin DOMAIN services THEN "NotFound"
    ELSE IF AlreadyRunning(services[lastCall'.name]) THEN None
    ELSE "DependencyUnavailable"

\* C19: the failures of start are told apart by what start reports: the
\* result of a start that failed in one way (unknown service, unhealthy
\* dependency, failed spawn, health timeout) is not the result start
\* reports for a failure of another kind.
C19_FailureKindsDistinct ==
    [][FailureOfStep # None
        => \A kind \in FailureKinds \ {FailureOfStep} :
              result' # StartFailure(kind)]_vars

(***************************************************************************)
(* More properties of the port manager, checked under SpecPM.              *)
(***************************************************************************)
\* Port q is in the configured range, not reserved, not a value of the
\* allocation table, and free to bind.
FreeToAllocate(q) ==
    /\ q \in start_port..(end_port - 1)
    /\ q \notin reserved_ports
    /\ q \notin Values(allocated_ports)
    /\ is_port_available(q)

\* C20: allocate(name) returns the port recorded for name when that port's
\* bind probe succeeds, and leaves the table as it is; otherwise it returns
\* the smallest port of the range that is not reserved, not a value of the
\* table and free to bind, and records name -> that port.
C20_ReuseElseSmallestFree ==
    [][\A n \in Names :
        (/\ lastCall'.op = "allocate"
         /\ lastCall'.name = n
         /\ result'.kind = "port")
        => LET port == result'.value
           IN  IF n \in DOMAIN allocated_ports
                  /\ is_port_available(allocated_ports[n])
               THEN /\ port = allocated_ports[n]
                    /\ allocated_ports' = allocated_ports
               ELSE /\ FreeToAllocate(port)
                    /\ \A q \in start_port..(port - 1) : ~FreeToAllocate(q)
                    /\ allocated_ports' = With(allocated_ports, n, port)]_vars

\* allocate has passed over a port of the table and the reserved port 8030
\* and recorded the next one.
C20_Witness ==
    /\ lastCall.op = "allocate"
    /\ result.kind = "port"
    /\ result.value = 8031
    /\ start_port = 8029
    /\ lastCall.name \in DOMAIN allocated_ports
    /\ allocated_ports[lastCall.name] = 8031
    /\ 8029 \in Values(allocated_ports)

(***************************************************************************)
(* Further properties of the service manager, checked under SpecSM.        *)
(***************************************************************************)
\* What a status query reports as healthy: the outcome of a live probe for
\* a service recorded RUNNING, not healthy for any other status, whether or
\* not something answers on the service's health URL.
HealthyAsClaimed(b) == services[b].status = RUNNING /\ is_service_healthy(b)

\* C21: get_service_status and list_all_services probe a service only when
\* its recorded status is RUNNING; a service in STOPPED, STARTING or ERROR
\* is reported not healthy without a probe; and neither query changes the
\* registry, the registry file, the allocation table or the processes.
C21_StatusProbesOnlyRunning ==
    [][/\ \A b \in DOMAIN services :
            (lastCall'.op = "status" /\ lastCall'.name = b)
            => (/\ result'.kind = "status"
                /\ result'.value.healthy = HealthyAsClaimed(b)
                /\ Untouched)
       /\ lastCall'.op = "list"
            => (/\ result'.kind = "list"
                /\ DOMAIN result'.value = DOMAIN services
                /\ \A b \in DOMAIN services :
                      result'.value[b].healthy = HealthyAsClaimed(b)
                /\ Untouched)]_vars

\* A service in ERROR whose child answers on its health URL has been
\* queried and reported not healthy.
C21_Witness ==
    /\ lastCall.op = "status"
    /\ lastCall.name \in DOMAIN services
    /\ services[lastCall.name].status = ERROR
    /\ is_service_healthy(lastCall.name)
    /\ result.kind = "status"
    /\ ~result.value.healthy

(***************************************************************************)
(* Properties checked under SpecTwoBuses.                                  *)
(***************************************************************************)
\* C22: with the handler of vin.decode on the second bus only, a call of
\* vin.decode issued on the first bus that returns, returns the result of
\* that handler, under every order of deliveries: never the missing-handler
\* error of a bus that lacks the handler.
C22_RemoteHandlerAnswers ==
    \A c \in CallIds :
        calls[c].outcome.kind = "return"
        => calls[c].outcome.value
               = RunHandler("decode", calls[c].payload, "returns")[2]

(***************************************************************************)
(* Properties checked under SpecAsync.                                     *)
(***************************************************************************)
\* The answer to the request of caller c is still under way: the request or
\* its response is queued at the broker, a message is being handled, or the
\* handler task of the request is queued and a worker is free to run it.
AnswerUnderWay(c) ==
    \/ \E item \in broker :
           \/ item.msg.message_id = calls[c].message_id
           \/ item.msg.correlation_id = calls[c].message_id
    \/ delivery.pc # "idle"
    \/ /\ WorkerFree
       /\ \E i \in 1..Len(executor) :
              executor[i].message.message_id = calls[c].message_id

\* C23: with a terminating handler registered on the same bus and a broker
\* that delivers every message, an asynchronous call that waits for its
\* response is never left with the timeout as the only thing that can end
\* the wait: its answer is under way, and the waiting calls never keep the
\* handler task from getting a worker, also when the callers are as many as
\* the workers of the pool.
C23_WaitingCallsGetAnswered ==
    \A c \in CallIds :
        (calls[c].pc = "waiting" /\ ~calls[c].event) => AnswerUnderWay(c)

(***************************************************************************)
(* Further properties checked under SpecSM.                                *)
(***************************************************************************)
Active(n) ==
    /\ n \in DOMAIN services
    /\ services[n].status \in {STARTING, RUNNING}

\* C24: while no operation is in progress, no two registered services whose
\* status is STARTING or RUNNING have the same port.
C24_ActivePortsDistinct ==
    mgr.pc = "idle"
    => \A a, b \in ServiceNames :
           (a # b /\ Active(a) /\ Active(b))
           => services[a].port # services[b].port

\* C25: while no operation is in progress, every live child the manager
\* spawned is the process tracked under its service name.
C25_LiveChildrenTracked ==
    mgr.pc = "idle"
    => \A pid \in DOMAIN procs :
           /\ procs[pid].name \in DOMAIN processes
           /\ processes[procs[pid].name] = pid

\* C26: while no operation is in progress, the status, port and pid stored
\* in the registry file for each service equal the ones in memory.
C26_DiskEqualsMemory ==
    mgr.pc = "idle"
    => /\ DOMAIN disk = DOMAIN services
       /\ \A n \in DOMAIN services :
              /\ disk[n].status = services[n].status
              /\ disk[n].port = services[n].port
              /\ disk[n].pid = services[n].pid

\* The configuration as it was when register_service returned: the one the
\* caller passed, with the port register_service gave it.
AsRegistered(config) ==
    \E c \in Configs : config = [c EXCEPT !.port = config.port]

\* C30: the configuration of every registered service, and the one in the
\* registry file, has the name, command, working directory, health path,
\* environment and dependencies it was registered with, and the port of the
\* registration.
C30_ConfigNeverMutated ==
    /\ \A n \in DOMAIN services :
           /\ AsRegistered(services[n].config)
           /\ services[n].config.port = services[n].port
    /\ \A n \in DOMAIN disk : AsRegistered(disk[n].config)

(***************************************************************************)
(* Properties checked under SpecAllocators.                                *)
(***************************************************************************)
\* C27: two allocate_port calls that run concurrently for different names
\* and have both returned, have returned different ports.
C27_ConcurrentAllocationsDistinct ==
    \A a, b \in Allocators :
        (/\ a # b
         /\ mgr.threads[a].pc = "returned"
         /\ mgr.threads[b].pc = "returned")
        => mgr.threads[a].ret # mgr.threads[b].ret

(***************************************************************************)
(* Properties checked under SpecFile.                                      *)
(***************************************************************************)
\* The complete documents: the previous one and the ones being saved.
CompleteDocuments ==
    {mgr.previous} \cup {mgr.savers[w].data : w \in Savers}

\* C28: a load at any point of the saves gets the complete previous document
\* or a complete new one, never a parse error of an empty or partly written
\* file; and when both saves have returned, the file holds the complete
\* document of one of them.
C28_SaveIsAtomic ==
    /\ mgr.loaded.kind # "none"
       => /\ mgr.loaded.kind = "document"
          /\ mgr.loaded.data \in CompleteDocuments
    /\ (\A w \in Savers : mgr.savers[w].pc = "returned")
       => /\ Loads(disk).kind = "document"
          /\ Loads(disk).data \in {mgr.savers[w].data : w \in Savers}

(***************************************************************************)
(* Properties checked under SpecRoute.                                     *)
(***************************************************************************)
QueuedTask(key, item) ==
    executor' = Append(executor, [handler_key |-> key, message |-> item.msg,
                                  copy |-> item.copy])

\* What the bus does with an inbound message of each kind.
HandledByKind(item) ==
    LET msg == item.msg
    IN  CASE msg.message_type = REQUEST ->
                 HandlerKey(msg.service_name, msg.method)
                     \in DOMAIN message_handlers
                 => QueuedTask(HandlerKey(msg.service_name, msg.method), item)
          [] msg.message_type = RESPONSE ->
                 delivery' = IF msg.correlation_id \in DOMAIN pending_requests
                             THEN [pc |-> "store", message |-> msg]
                             ELSE [pc |-> "idle"]
          [] msg.message_type = EVENT ->
                 EventKey(msg.service_name, msg.method)
                     \in DOMAIN message_handlers
                 => QueuedTask(EventKey(msg.service_name, msg.method), item)
          [] OTHER ->
                 /\ executor' = executor
                 /\ delivery' = delivery
                 /\ sent' = sent

\* C29: an inbound message taken from the broker is handled by its kind: a
\* REQUEST with a registered handler is queued for that handler, a RESPONSE
\* goes to the pending-call lookup, an EVENT with a registered callback is
\* queued for the callback and a HEALTH_CHECK to the health reply, whatever
\* the service name in the topic is.
C29_RoutedByKind ==
    [][\A item \in broker :
          item \notin broker' => HandledByKind(item)]_vars

====
